---- MODULE Spec2Model ----
(***************************************************************************)
(* A model of minspritz.c, an implementation of the Spritz sponge          *)
(* (Rivest, Schuldt) for N = 256: the engine state struct minspritz_s, the *)
(* primitives update, output, whip, crush, shuffle, absorb, absorb_nibble, *)
(* absorb_stop, drip and squeeze, and the two entry points minspritz_hash  *)
(* and minminspritz_stream.                                                *)
(*                                                                         *)
(* Three specifications share the variables:                               *)
(*   Spec         the primitives called in any order on one engine;        *)
(*   SpecCall     one invocation of an entry point, stepped through its    *)
(*                loops, over short and long messages;                     *)
(*   SpecSession  several invocations one after another on a reused stack. *)
(***************************************************************************)
EXTENDS Integers, Sequences, FiniteSets, TLC

(***************************************************************************)
(* Program constants and C arithmetic                                      *)
(***************************************************************************)
N == 256

\* conversion of an int to uint8_t
U8(x) == x % 256

LOW(b) == b % 16

HIGH(b) == (b \div 16) % 16

(***************************************************************************)
(* Bounds of the model                                                     *)
(***************************************************************************)
\* number of primitive calls in a behaviour of Spec
MaxOps == 2

\* largest output length r given to minspritz_hash in SpecSession
MaxR == 2

\* number of entry-point invocations in a behaviour of SpecSession
MaxCalls == 2

\* length in bytes of the long message of SpecCall: 42 shuffles while it is
\* absorbed and one more in squeeze, 129 whip calls in all
BigLen == 2700

(***************************************************************************)
(* The engine state.  A value of struct minspritz_s is a record with the   *)
(* fields i, j, k, z, a, w (uint8_t) and S (uint8_t[N], indexed 0..N-1).   *)
(* Six more fields observe the execution and are written, never read, by   *)
(* the operations:                                                         *)
(*   idx_lo, idx_hi   smallest and largest subscript applied to S since    *)
(*                    the current top-level call began (N and -1: none);   *)
(*   n_update, n_output, n_whip, n_shuffle   calls of these functions.     *)
(***************************************************************************)
\* S[ix] as an rvalue.  A subscript outside 0..N-1 is recorded in idx_lo or
\* idx_hi by the caller; the value read there is outside the array and is
\* taken to be 0 (no reachable state reads it, see C8_IndicesInRange).
Rd(S, ix) == IF ix \in 0..(N - 1) THEN S[ix] ELSE 0

\* S[ix] = val.  A store outside 0..N-1 leaves the array as it is.
Wr(S, ix, val) == IF ix \in 0..(N - 1) THEN [S EXCEPT ![ix] = val] ELSE S

Lo(x, y) == IF y < x THEN y ELSE x

Hi(x, y) == IF y > x THEN y ELSE x

\* TRUE, for every engine state.  Evaluating it evaluates q1: the loops below
\* use it to evaluate the state a part starts from before the part is entered.
Done(q1) == q1.a = q1.a

\* entry of a top-level call: the subscript record starts empty
Enter(q) == [q EXCEPT !.idx_lo = N, !.idx_hi = -1]

\* the bytes of an uninitialised struct minspritz_s on the stack, all b
Fill(b) ==
  [i |-> b, j |-> b, k |-> b, z |-> b, a |-> b, w |-> b,
   S |-> [v \in 0..(N - 1) |-> b],
   idx_lo |-> N, idx_hi |-> -1,
   n_update |-> 0, n_output |-> 0, n_whip |-> 0, n_shuffle |-> 0]

\* "ABC", the first input of main
ABC == <<65, 66, 67>>

\* no array, and no snapshot of squeeze's entry, yet
NoBytes == [len |-> 0, pat |-> ABC]

NoSnapshot == [a |-> 0, n_shuffle |-> 0, n_whip |-> 0, n_update |-> 0]

\* contents an uninitialised struct may hold
StackGarbage == {Fill(0), Fill(170)}

\* the program's fields of an engine state, without the observers
Core(q) == <<q.i, q.j, q.k, q.z, q.a, q.w, q.S>>

initialise_state_skip_z(q) ==
  [q EXCEPT !.i = 0, !.j = 0, !.k = 0, !.a = 0, !.w = 1,
            !.S = [v \in 0..(N - 1) |-> U8(v)],
            !.idx_lo = Lo(@, 0), !.idx_hi = Hi(@, N - 1)]

initialise_state(q) ==
  [q EXCEPT !.i = 0, !.j = 0, !.k = 0, !.z = 0, !.a = 0, !.w = 1,
            !.S = [v \in 0..(N - 1) |-> U8(v)],
            !.idx_lo = Lo(@, 0), !.idx_hi = Hi(@, N - 1)]

update_overwrite(q) ==
  LET i1 == U8(q.i + q.w)
      x1 == (q.j + Rd(q.S, i1)) % N
      j1 == U8(q.k + Rd(q.S, x1))
      k1 == U8(i1 + q.k + Rd(q.S, j1 % N))
      S1 == Wr(q.S, i1 % N, Rd(q.S, j1 % N))
      S2 == Wr(S1, j1 % N, Rd(S1, i1 % N))
  IN [q EXCEPT !.i = i1, !.j = j1, !.k = k1, !.S = S2,
               !.idx_lo = Lo(Lo(Lo(@, i1), x1), j1 % N),
               !.idx_hi = Hi(Hi(Hi(@, i1), x1), j1 % N),
               !.n_update = @ + 1]

update(q) ==
  LET i1 == U8(q.i + q.w)
      x1 == (q.j + Rd(q.S, i1)) % N
      j1 == U8(q.k + Rd(q.S, x1))
      k1 == U8(i1 + q.k + Rd(q.S, j1 % N))
      temp == Rd(q.S, i1 % N)
      S1 == Wr(q.S, i1 % N, Rd(q.S, j1 % N))
      S2 == Wr(S1, j1 % N, temp)
  IN [q EXCEPT !.i = i1, !.j = j1, !.k = k1, !.S = S2,
               !.idx_lo = Lo(Lo(Lo(@, i1), x1), j1 % N),
               !.idx_hi = Hi(Hi(Hi(@, i1), x1), j1 % N),
               !.n_update = @ + 1]

\* z = S[j+S[i+S[z+k]]]; the value returned is the new z
output(q) ==
  LET x1 == (q.z + q.k) % N
      x2 == (q.i + Rd(q.S, x1)) % N
      x3 == (q.j + Rd(q.S, x2)) % N
  IN [q EXCEPT !.z = Rd(q.S, x3),
               !.idx_lo = Lo(Lo(Lo(@, x1), x2), x3),
               !.idx_hi = Hi(Hi(Hi(@, x1), x2), x3),
               !.n_output = @ + 1]

\* for (v = v0; v < e; v++) update(q): the state after the loop.  The range
\* is cut in eight parts, done one after the other, so that the evaluation
\* nests to depth log8 (e - v0); Done makes each part be evaluated before
\* the next is entered, as the iterations of the source are.
RECURSIVE whip_loop(_, _, _)
whip_loop(q, v, e) ==
  IF v >= e THEN q
  ELSE IF v + 1 = e THEN update(q)
  ELSE LET s == ((e - v) + 7) \div 8
           q1 == whip_loop(q, v, v + s)
           q2 == whip_loop(q1, Lo(e, v + (1 * s)), Lo(e, v + (2 * s)))
           q3 == whip_loop(q2, Lo(e, v + (2 * s)), Lo(e, v + (3 * s)))
           q4 == whip_loop(q3, Lo(e, v + (3 * s)), Lo(e, v + (4 * s)))
           q5 == whip_loop(q4, Lo(e, v + (4 * s)), Lo(e, v + (5 * s)))
           q6 == whip_loop(q5, Lo(e, v + (5 * s)), Lo(e, v + (6 * s)))
           q7 == whip_loop(q6, Lo(e, v + (6 * s)), Lo(e, v + (7 * s)))
       IN IF /\ Done(q) /\ Done(q1) /\ Done(q2) /\ Done(q3)
             /\ Done(q4) /\ Done(q5) /\ Done(q6) /\ Done(q7)
            THEN whip_loop(q7, Lo(e, v + (7 * s)), e)
            ELSE q

\* the statement after the loop of whip, with 1 for 2
whip_w_plus_one(q) == [q EXCEPT !.w = U8(@ + 1), !.n_whip = @ + 1]

\* the statement after the loop of whip: w += 2
whip_w(q) == [q EXCEPT !.w = U8(@ + 2), !.n_whip = @ + 1]

whip(q, r) == whip_w(whip_loop(q, 0, r))

crush_step_off_by_one(q, v) ==
  LET q1 == [q EXCEPT !.idx_lo = Lo(Lo(@, v), N - v),
                      !.idx_hi = Hi(Hi(@, v), N - v)]
  IN IF Rd(q.S, v) > Rd(q.S, N - v)
       THEN LET temp == Rd(q.S, v)
                S1 == Wr(q.S, v, Rd(q.S, N - v))
            IN [q1 EXCEPT !.S = Wr(S1, N - v, temp)]
       ELSE q1

\* one iteration of the loop of crush
crush_step(q, v) ==
  LET q1 == [q EXCEPT !.idx_lo = Lo(Lo(@, v), N - 1 - v),
                      !.idx_hi = Hi(Hi(@, v), N - 1 - v)]
  IN IF Rd(q.S, v) > Rd(q.S, N - 1 - v)
       THEN LET temp == Rd(q.S, v)
                S1 == Wr(q.S, v, Rd(q.S, N - 1 - v))
            IN [q1 EXCEPT !.S = Wr(S1, N - 1 - v, temp)]
       ELSE q1

\* for (v = v0; v < e; v++) crush_step, the range cut as in whip_loop
RECURSIVE crush_loop(_, _, _)
crush_loop(q, v, e) ==
  IF v >= e THEN q
  ELSE IF v + 1 = e THEN crush_step(q, v)
  ELSE LET s == ((e - v) + 7) \div 8
           q1 == crush_loop(q, v, v + s)
           q2 == crush_loop(q1, Lo(e, v + (1 * s)), Lo(e, v + (2 * s)))
           q3 == crush_loop(q2, Lo(e, v + (2 * s)), Lo(e, v + (3 * s)))
           q4 == crush_loop(q3, Lo(e, v + (3 * s)), Lo(e, v + (4 * s)))
           q5 == crush_loop(q4, Lo(e, v + (4 * s)), Lo(e, v + (5 * s)))
           q6 == crush_loop(q5, Lo(e, v + (5 * s)), Lo(e, v + (6 * s)))
           q7 == crush_loop(q6, Lo(e, v + (6 * s)), Lo(e, v + (7 * s)))
       IN IF /\ Done(q) /\ Done(q1) /\ Done(q2) /\ Done(q3)
             /\ Done(q4) /\ Done(q5) /\ Done(q6) /\ Done(q7)
            THEN crush_loop(q7, Lo(e, v + (7 * s)), e)
            ELSE q

crush(q) == crush_loop(q, 0, N \div 2)

\* the last statement of shuffle: a = 0
shuffle_a(q) == [q EXCEPT !.a = 0, !.n_shuffle = @ + 1]

shuffle(q) ==
  shuffle_a(whip(crush(whip(crush(whip(q, 2 * N)), 2 * N)), 2 * N))

\* if (q->a == N/2) shuffle(q), the first statement of absorb_nibble and of
\* absorb_stop
shuffle_if_full(q) == IF q.a = N \div 2 THEN shuffle(q) ELSE q

\* the swap of absorb_nibble, SWAP(S[a], S[N/2 + x]), and a += 1
absorb_nibble_swap(q, x) ==
  LET ia == q.a % N
      ib == (N \div 2) + x
      temp == Rd(q.S, ia)
      S1 == Wr(q.S, ia, Rd(q.S, ib))
      S2 == Wr(S1, ib, temp)
  IN [q EXCEPT !.S = S2, !.a = U8(@ + 1),
               !.idx_lo = Lo(Lo(@, ia), ib),
               !.idx_hi = Hi(Hi(@, ia), ib)]

absorb_nibble_no_shuffle(q, x) == absorb_nibble_swap(q, x)

absorb_nibble(q, x) == absorb_nibble_swap(shuffle_if_full(q), x)

\* the last statement of absorb_stop: a += 1
absorb_stop_a(q) == [q EXCEPT !.a = U8(@ + 1)]

absorb_stop_with_swap(q) == absorb_nibble(q, 0)

absorb_stop(q) == absorb_stop_a(shuffle_if_full(q))

\* the body of the loop of absorb, on the byte b = i[v]
absorb_step(q, b) == absorb_nibble(absorb_nibble(q, LOW(b)), HIGH(b))

\* for (v = v0; v < e; v++) absorb_step on i[v], the range cut as in
\* whip_loop; i[v] is in[v + 1] of the sequence
RECURSIVE absorb_loop(_, _, _, _)
absorb_loop(q, in, v, e) ==
  IF v >= e THEN q
  ELSE IF v + 1 = e THEN absorb_step(q, in[v + 1])
  ELSE LET s == ((e - v) + 7) \div 8
           q1 == absorb_loop(q, in, v, v + s)
           q2 == absorb_loop(q1, in, Lo(e, v + (1 * s)), Lo(e, v + (2 * s)))
           q3 == absorb_loop(q2, in, Lo(e, v + (2 * s)), Lo(e, v + (3 * s)))
           q4 == absorb_loop(q3, in, Lo(e, v + (3 * s)), Lo(e, v + (4 * s)))
           q5 == absorb_loop(q4, in, Lo(e, v + (4 * s)), Lo(e, v + (5 * s)))
           q6 == absorb_loop(q5, in, Lo(e, v + (5 * s)), Lo(e, v + (6 * s)))
           q7 == absorb_loop(q6, in, Lo(e, v + (6 * s)), Lo(e, v + (7 * s)))
       IN IF /\ Done(q) /\ Done(q1) /\ Done(q2) /\ Done(q3)
             /\ Done(q4) /\ Done(q5) /\ Done(q6) /\ Done(q7)
            THEN absorb_loop(q7, in, Lo(e, v + (7 * s)), e)
            ELSE q

absorb(q, in) == absorb_loop(q, in, 0, Len(in))

\* if (q->a > 0) shuffle(q), the first statement of drip and of squeeze
shuffle_if_pending(q) == IF q.a > 0 THEN shuffle(q) ELSE q

\* the value returned is the z of the result
drip(q) == output(update(shuffle_if_pending(q)))

squeeze_no_shuffle(q) == q

\* the first statement of squeeze
squeeze_shuffle(q) == shuffle_if_pending(q)

(***************************************************************************)
(* Variables                                                               *)
(***************************************************************************)
VARIABLES
  q,        \* the engine state (struct minspritz_s q)
  pc,       \* position of the program: "ops" in Spec, else a place in an entry point
  last,     \* the last primitive called in Spec
  n,        \* number of primitive calls made in Spec
  mode,     \* entry point being run: "hash", "stream" or "none"
  m,        \* the message or key given to the entry point (m, m_len)
  r,        \* the uint8_t r given to minspritz_hash (0 for stream)
  want,     \* number of bytes the caller wants back
  in,       \* the array given to the absorb call being run (i, i_len)
  v,        \* the loop variable v of absorb or squeeze
  p,        \* the bytes of the buffer p of squeeze
  alloc,    \* "none" before malloc, then "ok" or "failed" (p == NULL)
  nullWrite,\* a store through the null p has happened
  dripped,  \* the values drip has returned during this invocation
  trace,    \* the calls the entry point has completed
  q0,       \* a and the call counts with which squeeze was entered
  calls,    \* number of invocations begun
  memo      \* [m, r, out] of every minspritz_hash that returned a buffer, in order

vars == <<q, pc, last, n, mode, m, r, want, in, v, p, alloc, nullWrite,
          dripped, trace, q0, calls, memo>>

callVars == <<mode, m, r, want, in, v, p, alloc, nullWrite, dripped, trace,
              q0, calls, memo>>

(***************************************************************************)
(* Spec: the primitives, called in any order on an initialised engine      *)
(***************************************************************************)
\* nibbles handed to absorb_nibble: the smallest, the largest, one between
Nibbles == {0, 8, 15}

\* byte sequences handed to absorb: one byte, and N/2 nibbles
OpInputs == {<<175>>, [x \in 1..(N \div 4) |-> ABC[((x - 1) % 3) + 1]]}

Init ==
  /\ \E g \in StackGarbage : q = initialise_state(g)
  /\ pc = "ops"
  /\ last = [op |-> "initialise_state", arg |-> <<>>]
  /\ n = 0
  /\ mode = "none" /\ m = NoBytes /\ r = 0 /\ want = 0 /\ in = NoBytes /\ v = 0
  /\ p = <<>> /\ alloc = "none" /\ nullWrite = FALSE /\ dripped = <<>>
  /\ trace = <<>> /\ q0 = NoSnapshot /\ calls = 0 /\ memo = <<>>

Op(name, arg, q1) ==
  /\ pc = "ops"
  /\ n < MaxOps
  /\ q' = q1
  /\ last' = [op |-> name, arg |-> arg]
  /\ n' = n + 1
  /\ UNCHANGED <<pc, callVars>>

Update == Op("update", <<>>, update(Enter(q)))

Output == Op("output", <<>>, output(Enter(q)))

Crush == Op("crush", <<>>, crush(Enter(q)))

Whip == Op("whip", <<2 * N>>, whip(Enter(q), 2 * N))

Shuffle == Op("shuffle", <<>>, shuffle(Enter(q)))

AbsorbNibble == \E x \in Nibbles : Op("absorb_nibble", <<x>>, absorb_nibble(Enter(q), x))

AbsorbStop == Op("absorb_stop", <<>>, absorb_stop(Enter(q)))

Absorb == \E b \in OpInputs : Op("absorb", b, absorb(Enter(q), b))

Drip == Op("drip", <<>>, drip(Enter(q)))

Next ==
  \/ Update
  \/ Output
  \/ Crush
  \/ Whip
  \/ Shuffle
  \/ AbsorbNibble
  \/ AbsorbStop
  \/ Absorb
  \/ Drip

Spec == Init /\ [][Next]_vars

(***************************************************************************)
(* The entry points, stepped through their loops.                          *)
(*   minspritz_hash(m, m_len, r):                                          *)
(*     initialise_state; absorb(m); absorb_stop; absorb(&r, 1); squeeze(r) *)
(*   minminspritz_stream(m, m_len):                                        *)
(*     initialise_state; absorb(m); squeeze(32)                            *)
(* pc: "idle", "initialise", "absorb", "absorb_hi", "absorb_stop",         *)
(*     "squeeze", "drip", "done", "crashed".                               *)
(***************************************************************************)
\* value of a byte of the malloc'ed buffer that has not been stored to
Indeterminate == -1

\* the number of bytes minminspritz_stream squeezes
StreamLen == 32

\* a completed call of f on the array arg (NoBytes: no array; for squeeze,
\* its r)
Call(f, arg) == [f |-> f, arg |-> arg]

\* A byte array of the caller (m and m_len, or &r and 1) is the text pat
\* repeated up to len bytes: "ABC" of main, "ABCABCA", ...
Bytes(len, pat) == [len |-> len, pat |-> pat]

\* element ix (from 0) of such an array
ByteAt(arr, ix) == arr.pat[(ix % Len(arr.pat)) + 1]

\* the fields of the engine state that squeeze is entered with
Snapshot(q1) ==
  [a |-> q1.a, n_shuffle |-> q1.n_shuffle, n_whip |-> q1.n_whip,
   n_update |-> q1.n_update]

\* the r that squeeze is called with
squeeze_r_fixed(md, hr) == StreamLen

squeeze_r(md, hr) == IF md = "hash" THEN hr ELSE StreamLen

\* the observers of a fresh invocation
ResetObservers(q1) ==
  [q1 EXCEPT !.idx_lo = N, !.idx_hi = -1, !.n_update = 0, !.n_output = 0,
             !.n_whip = 0, !.n_shuffle = 0]

\* the entry point is entered: its local struct minspritz_s q is not
\* initialised and holds whatever the stack held, the state an earlier
\* invocation left there included
Invoke(md, msg, hr, wanted) ==
  /\ pc \in {"idle", "done"}
  /\ \E g \in StackGarbage \cup {ResetObservers(q)} : q' = g
  /\ pc' = "initialise"
  /\ mode' = md /\ m' = msg /\ r' = hr /\ want' = wanted
  /\ in' = NoBytes /\ v' = 0 /\ p' = <<>> /\ alloc' = "none"
  /\ nullWrite' = FALSE /\ dripped' = <<>> /\ trace' = <<>> /\ q0' = NoSnapshot
  /\ calls' = calls + 1
  /\ UNCHANGED <<last, n, memo>>

\* initialise_state(&q); absorb(&q, m, m_len) is entered
Initialise ==
  /\ pc = "initialise"
  /\ q' = initialise_state(Enter(q))
  /\ trace' = Append(trace, Call("initialise_state", NoBytes))
  /\ in' = m /\ v' = 0
  /\ pc' = "absorb"
  /\ UNCHANGED <<last, n, mode, m, r, want, p, alloc, nullWrite, dripped,
                 q0, calls, memo>>

\* loop of absorb, v < i_len: absorb_nibble(q, LOW(i[v]))
AbsorbLow ==
  /\ pc = "absorb" /\ v < in.len
  /\ q' = absorb_nibble(Enter(q), LOW(ByteAt(in, v)))
  /\ pc' = "absorb_hi"
  /\ UNCHANGED <<last, n, callVars>>

\* loop of absorb: absorb_nibble(q, HIGH(i[v])); v++
AbsorbHigh ==
  /\ pc = "absorb_hi"
  /\ q' = absorb_nibble(Enter(q), HIGH(ByteAt(in, v)))
  /\ v' = v + 1
  /\ pc' = "absorb"
  /\ UNCHANGED <<last, n, mode, m, r, want, in, p, alloc, nullWrite,
                 dripped, trace, q0, calls, memo>>

\* absorb returns: v == i_len.  In minspritz_hash the first absorb is
\* followed by absorb_stop, anything else by squeeze.
AbsorbReturn ==
  /\ pc = "absorb" /\ v >= in.len
  /\ trace' = Append(trace, Call("absorb", in))
  /\ pc' = IF mode = "hash" /\ Len(trace) = 1 THEN "absorb_stop" ELSE "squeeze"
  /\ UNCHANGED <<q, last, n, mode, m, r, want, in, v, p, alloc, nullWrite,
                 dripped, q0, calls, memo>>

\* absorb_stop(&q); absorb(&q, &r, 1) is entered
HashAbsorbStop ==
  /\ pc = "absorb_stop"
  /\ q' = absorb_stop(Enter(q))
  /\ trace' = Append(trace, Call("absorb_stop", NoBytes))
  /\ in' = Bytes(1, <<r>>) /\ v' = 0
  /\ pc' = "absorb"
  /\ UNCHANGED <<last, n, mode, m, r, want, p, alloc, nullWrite, dripped,
                 q0, calls, memo>>

\* squeeze up to its loop: shuffle if a > 0, then p = malloc(r)
SqueezeEnter(ok) ==
  /\ pc = "squeeze"
  /\ q' = squeeze_shuffle(Enter(q))
  /\ q0' = Snapshot(q)
  /\ alloc' = IF ok THEN "ok" ELSE "failed"
  /\ p' = IF ok THEN [x \in 1..squeeze_r(mode, r) |-> Indeterminate] ELSE <<>>
  /\ v' = 0
  /\ pc' = "drip"
  /\ UNCHANGED <<last, n, mode, m, r, want, in, nullWrite, dripped, trace,
                 calls, memo>>

\* malloc returns a buffer
SqueezeAlloc == SqueezeEnter(TRUE)

\* malloc returns NULL
SqueezeAllocFails == SqueezeEnter(FALSE)

\* loop of squeeze, v < r: p[v] = drip(q); v++
SqueezeDrip ==
  /\ pc = "drip" /\ v < squeeze_r(mode, r) /\ alloc = "ok"
  /\ q' = drip(Enter(q))
  /\ p' = [p EXCEPT ![v + 1] = q'.z]
  /\ dripped' = Append(dripped, q'.z)
  /\ v' = v + 1
  /\ UNCHANGED <<pc, last, n, mode, m, r, want, in, alloc, nullWrite, trace,
                 q0, calls, memo>>

\* the same with p == NULL: the store p[v] = ... is undefined behaviour.
\* The process is killed by the store, or the store goes unnoticed and the
\* loop goes on.
SqueezeDripNull ==
  /\ pc = "drip" /\ v < squeeze_r(mode, r) /\ alloc = "failed"
  /\ q' = drip(Enter(q))
  /\ dripped' = Append(dripped, q'.z)
  /\ nullWrite' = TRUE
  /\ \/ pc' = "crashed" /\ v' = v
     \/ pc' = pc /\ v' = v + 1
  /\ UNCHANGED <<last, n, mode, m, r, want, in, p, alloc, trace, q0, calls,
                 memo>>

\* squeeze returns p, and the entry point returns it to its caller
SqueezeReturn ==
  /\ pc = "drip" /\ v >= squeeze_r(mode, r)
  /\ trace' = Append(trace, Call("squeeze", Bytes(1, <<squeeze_r(mode, r)>>)))
  /\ memo' = IF mode = "hash" /\ alloc = "ok"
               THEN Append(memo, [m |-> m, r |-> r, out |-> p]) ELSE memo
  /\ pc' = "done"
  /\ UNCHANGED <<q, last, n, mode, m, r, want, in, v, p, alloc, nullWrite,
                 dripped, q0, calls>>

Steps ==
  \/ Initialise
  \/ AbsorbLow
  \/ AbsorbHigh
  \/ AbsorbReturn
  \/ HashAbsorbStop
  \/ SqueezeAlloc
  \/ SqueezeAllocFails
  \/ SqueezeDrip
  \/ SqueezeDripNull
  \/ SqueezeReturn

InitCall ==
  /\ \E g \in StackGarbage : q = g
  /\ pc = "idle"
  /\ last = [op |-> "none", arg |-> <<>>]
  /\ n = 0
  /\ mode = "none" /\ m = NoBytes /\ r = 0 /\ want = 0 /\ in = NoBytes /\ v = 0
  /\ p = <<>> /\ alloc = "none" /\ nullWrite = FALSE /\ dripped = <<>>
  /\ trace = <<>> /\ q0 = NoSnapshot /\ calls = 0 /\ memo = <<>>

(***************************************************************************)
(* SpecCall: one invocation, over short and long inputs                    *)
(***************************************************************************)
CallMsgs == {Bytes(len, ABC) : len \in {0, 3, N \div 4, (N \div 4) + 1, BigLen}}

CallR == {1, 32, 255}

\* lengths a caller of the keystream function asks for
StreamWants == {32, 64}

HashCall ==
  /\ calls < 1
  /\ \E msg \in CallMsgs, hr \in CallR : Invoke("hash", msg, hr, hr)

StreamCall ==
  /\ calls < 1
  /\ \E msg \in CallMsgs, wanted \in StreamWants : Invoke("stream", msg, 0, wanted)

NextCall ==
  \/ HashCall
  \/ StreamCall
  \/ Steps

SpecCall == InitCall /\ [][NextCall]_vars

(***************************************************************************)
(* SpecSession: several invocations, one after another                     *)
(***************************************************************************)
SessionMsgs == {Bytes(0, ABC), Bytes(3, ABC)}

HashAgain ==
  /\ calls < MaxCalls
  /\ \E msg \in SessionMsgs, hr \in 1..MaxR : Invoke("hash", msg, hr, hr)

StreamAgain ==
  /\ calls < MaxCalls
  /\ \E msg \in SessionMsgs, wanted \in StreamWants : Invoke("stream", msg, 0, wanted)

NextSession ==
  \/ HashAgain
  \/ StreamAgain
  \/ Steps

SpecSession == InitCall /\ [][NextSession]_vars

(***************************************************************************)
(* Properties                                                              *)
(***************************************************************************)
\* the struct q of the running entry point has been through initialise_state
Initialised == pc \notin {"idle", "initialise"}

Identity == [x \in 0..(N - 1) |-> x]

\* S holds every value of 0..N-1 exactly once
IsPermutation(S) ==
  /\ \A ix \in 0..(N - 1) : S[ix] \in 0..(N - 1)
  /\ Cardinality({S[ix] : ix \in 0..(N - 1)}) = N

\* C1: from the state initialise_state produces, after any sequence of
\* update, output, crush, whip, shuffle, absorb_nibble, absorb_stop, absorb and
\* drip calls, S is a bijection on 0..255.
C1_Permutation == IsPermutation(q.S)

\* absorb_nibble has shuffled a full engine and swapped: S is no longer the
\* identity
C1_Witness ==
  /\ last.op = "absorb_nibble"
  /\ q.n_shuffle = 1
  /\ q.a = 1
  /\ q.S # Identity

\* C2: w is odd in every state of an initialised engine, however many whip
\* calls were made: it is 1 + 2 * (number of whip calls) modulo 256.
C2_WOdd ==
  Initialised => /\ q.w % 2 = 1
                 /\ q.w = U8(1 + (2 * q.n_whip))

\* more than N/2 whip calls: w has gone through 255 and wrapped to 1, 3
C2_Witness ==
  /\ Initialised
  /\ q.n_whip > N \div 2
  /\ q.w = 3

\* C3: when minspritz_hash(m, r) returns a buffer, it has run
\* initialise_state; absorb(m); absorb_stop; absorb(&r, 1); squeeze(r), the
\* buffer has r bytes, byte v is what the (v+1)-th drip returned, and drip
\* (hence output) ran r times.
C3_Hash ==
  (pc = "done" /\ mode = "hash" /\ alloc = "ok") =>
    /\ trace = << Call("initialise_state", NoBytes), Call("absorb", m),
                  Call("absorb_stop", NoBytes), Call("absorb", Bytes(1, <<r>>)),
                  Call("squeeze", Bytes(1, <<r>>)) >>
    /\ Len(p) = r
    /\ p = dripped
    /\ q.n_output = r

\* a hash of a message of more than N/2 nibbles with the largest r returned
C3_Witness ==
  /\ pc = "done" /\ mode = "hash" /\ alloc = "ok"
  /\ r = 255
  /\ m.len = (N \div 4) + 1
  /\ Len(p) = 255

\* C4: the keystream function returns as many bytes as its caller asked for.
C4_StreamLength ==
  (pc = "done" /\ mode = "stream" /\ alloc = "ok") => Len(p) = want

\* C5: when malloc fails in squeeze, nothing is stored through the null
\* pointer and the entry point does not return (a null pointer) as if it had
\* succeeded.
C5_AllocFailureSurfaced ==
  alloc = "failed" => /\ ~nullWrite
                      /\ pc \notin {"done", "crashed"}

\* C6: minspritz_hash is a function of (m, r): any two invocations that
\* returned a buffer for the same m and r returned the same bytes, whatever
\* ran before them and whatever the stack held; after initialise_state the
\* struct is i = j = k = z = a = 0, w = 1, S the identity.
C6_Deterministic ==
  /\ \A c1, c2 \in 1..Len(memo) :
       (memo[c1].m = memo[c2].m /\ memo[c1].r = memo[c2].r)
         => memo[c1].out = memo[c2].out
  /\ (pc = "absorb" /\ Len(trace) = 1 /\ v = 0)
       => Core(q) = <<0, 0, 0, 0, 0, 1, Identity>>

\* the same (m, r) was hashed twice, the second time on a stack that held
\* the state the first invocation left
C6_Witness ==
  /\ Len(memo) = 2
  /\ memo[1].m = memo[2].m /\ memo[1].r = memo[2].r
  /\ memo[1].m.len > 0
  /\ pc = "done"

\* C7: a stays in 0..N/2: absorb_nibble and absorb_stop shuffle first when
\* a == N/2, so that a goes from N/2 to 1 with one shuffle, and from a < N/2
\* to a + 1 with none.
C7_CounterBounded ==
  /\ [](Initialised => q.a \in 0..(N \div 2))
  /\ [][(pc \in {"absorb", "absorb_hi", "absorb_stop"} /\ q' # q) =>
          IF q.a = N \div 2
            THEN q'.a = 1 /\ q'.n_shuffle = q.n_shuffle + 1
            ELSE q'.a = q.a + 1 /\ q'.n_shuffle = q.n_shuffle]_vars

\* the 129th nibble of a message has been absorbed: shuffle ran and a is 1
C7_Witness ==
  /\ pc = "absorb_hi"
  /\ v = N \div 4
  /\ q.n_shuffle = 1
  /\ q.a = 1

\* C8: every subscript applied to S by a primitive is in 0..N-1.
C8_IndicesInRange ==
  /\ q.idx_lo >= 0
  /\ q.idx_hi <= N - 1

\* absorb_nibble(15) on a fresh engine used S[0] and S[N/2 + 15]
C8_Witness ==
  /\ last = [op |-> "absorb_nibble", arg |-> <<15>>]
  /\ q.idx_lo = 0
  /\ q.idx_hi = (N \div 2) + 15

\* C9: in squeeze, shuffle runs once before the loop if a > 0 on entry and
\* not at all if a == 0; from then on a == 0, and every drip of the loop is
\* one update and one output, without a shuffle.
C9_SqueezeShuffleOnce ==
  pc \in {"drip", "done", "crashed"} =>
    LET once == IF q0.a > 0 THEN 1 ELSE 0
    IN /\ q.a = 0
       /\ q.n_shuffle = q0.n_shuffle + once
       /\ q.n_whip = q0.n_whip + (3 * once)
       /\ q.n_update = q0.n_update + (3 * 2 * N * once) + Len(dripped)
       /\ q.n_output = Len(dripped)

\* squeeze was entered with a > 0 and its loop has ended
C9_Witness ==
  /\ pc = "done" /\ alloc = "ok"
  /\ q0.a > 0
  /\ Len(dripped) = 255

\* C10: absorb_stop swaps nothing: entered with a < N/2 it only adds 1 to a;
\* entered with a == N/2 it does what shuffle does and sets a to 1.
C10_AbsorbStopFrame ==
  [][(last'.op = "absorb_stop" /\ n' = n + 1) =>
       IF q.a < N \div 2
         THEN /\ Core(q') = Core([q EXCEPT !.a = q.a + 1])
              /\ q'.n_update = q.n_update
         ELSE Core(q') = Core([shuffle(q) EXCEPT !.a = 1])]_vars

\* absorb_stop was called on an engine holding N/2 nibbles
C10_Witness ==
  /\ last.op = "absorb_stop"
  /\ q.n_shuffle = 1
  /\ q.a = 1

====
